---- MODULE Spec2Model ----
(***************************************************************************)
(* Upload ingress path of gimmethat (src/web/api.rs): put_upload,          *)
(* put_upload_public and handle_upload, run by concurrent requests against *)
(* one quota-managed directory.                                            *)
(*                                                                         *)
(* Each request is a process.  The actions are the segments of its future  *)
(* between two .await points, so that the interleavings of the model are   *)
(* the interleavings the cooperative scheduler can produce.                *)
(*                                                                         *)
(* The collaborators of api.rs that live in other modules of the crate     *)
(* (ctx.crypto, UploadCapability, ctx.dirs, the directory, the file        *)
(* writer, UploadResponseTemplate) are modelled from their contract in     *)
(* spec.md, sections 3, 4 and 6.                                           *)
(***************************************************************************)
EXTENDS Integers, Sequences, FiniteSets, TLC

\* ---------------------------------------------------------------- bounds
\* Byte budget of the directory when the first request arrives.
Budget0 == 2
\* Largest request body, in bytes.
MaxBody == 3

\* The concurrent requests.
Reqs == {"r1", "r2"}

\* Rust's Option: None, Some(x).
None == <<>>
Some(x) == <<x>>
Unwrap(o) == o[1]

\* -------------------------------------------------------------- requests
\* A token is what the capability codec makes of it: undecodable for one of
\* two reasons, or a capability with an expiry state and a structural state.
Tokens ==
    {[kind |-> "wrongkey"], [kind |-> "malformed"]}
      \cup {[kind |-> "ok", expired |-> e, valid |-> v] : e, v \in BOOLEAN}

\* Destination names a client supplies, and the strings OsRng.next_u64()
\* can produce.
Names == {"a"}
RandNames == {"7", "9"}

\* Declared lengths: absent, or anything up to one byte over the budget.
ContentLengths == {None} \cup {Some(n) : n \in 0 .. Budget0 + 1}

\* What a client sends: the endpoint, the token and the optional name of the
\* path, and the optional content-length header.
Inputs ==
    [endpoint : {"put_upload"}, token : Tokens,
     name : {Some(n) : n \in Names}, content_length : ContentLengths]
    \cup
    [endpoint : {"put_upload_public"}, token : Tokens,
     name : {None} \cup {Some(n) : n \in Names}, content_length : ContentLengths]

\* The requests of the concurrent workload carry a capability that passes
\* the checks, and declare nothing, one byte or the whole budget.
ConcInputs ==
    {i \in Inputs :
        /\ i.token = [kind |-> "ok", expired |-> FALSE, valid |-> TRUE]
        /\ i.name # None
        /\ i.content_length \in {None, Some(1), Some(Budget0)}}

\* ------------------------------------------------------------ HTTP status
OK == "200 OK"
BAD_REQUEST == "400 Bad Request"
UNAUTHORIZED == "401 Unauthorized"
PAYLOAD_TOO_LARGE == "413 Payload Too Large"
INTERNAL_SERVER_ERROR == "500 Internal Server Error"

VARIABLES
    workload,        \* "single" or "concurrent": which requests arrive
    pc,              \* where each request's future is suspended
    endpoint,        \* "put_upload" or "put_upload_public", "" before entry
    cap,             \* the decoded UploadCapability, None before decode
    name,            \* destination name handed to handle_upload
    content_length,  \* Option<u64>
    chunk,           \* size of the chunk body.next() returned, 0 when none
    received,        \* body bytes and chunks delivered so far
    msgs,            \* handle_upload's msgs vector
    bytes_written,   \* handle_upload's local bytes_written
    response,        \* the response returned to the client
    ops,             \* log of the collaborator calls each request made
    file,            \* the file writer of each request
    remaining,       \* the directory's remaining-byte budget
    seen_remaining,  \* the budget get_remaining_bytes returned to each request
    outcome          \* how the transport and the storage ended the stream loop:
                     \* "end", "receive fault", "write fault: io",
                     \* "write fault: quota", "" while it has not ended

vars == <<workload, pc, endpoint, cap, name, content_length, chunk, received, msgs,
          bytes_written, response, ops, file, remaining, seen_remaining,
          outcome>>

\* ------------------------------------------------------------ collaborators
\* ctx.crypto.decrypt: a capability or an error that tells the reason.
decrypt(token) ==
    IF token.kind = "ok"
    THEN [ok |-> TRUE,
          cap |-> [expired |-> token.expired, valid |-> token.valid, dir |-> "d"]]
    ELSE [ok |-> FALSE, err |-> token.kind]

is_expired(c) == c.expired

validate(c) == IF c.valid THEN [ok |-> TRUE] ELSE [ok |-> FALSE, err |-> "invalid"]

\* A writer before create_file_writer made it.
NoFile == [created |-> FALSE, open |-> FALSE, bytes_really_written |-> 0,
           durable |-> 0, data |-> <<>>, faulted |-> FALSE, finalized |-> 0,
           flushed |-> 0]

\* Bytes writers accepted that the storage layer has not committed yet.
Pending(r) == file[r].bytes_really_written - file[r].durable

RECURSIVE SumPending(_)
SumPending(S) ==
    IF S = {} THEN 0
    ELSE LET r == CHOOSE x \in S : TRUE IN Pending(r) + SumPending(S \ {r})

RECURSIVE SumDurable(_)
SumDurable(S) ==
    IF S = {} THEN 0
    ELSE LET r == CHOOSE x \in S : TRUE IN file[r].durable + SumDurable(S \ {r})

\* directory.get_remaining_bytes(&cap)
get_remaining_bytes == remaining

\* What the write path can still accept: the budget less the accepted bytes
\* not yet charged to it.
Available == remaining - SumPending(Reqs)

\* ---------------------------------------------------------------- responses
\* axum: a string converts into a response with the default status.
StrIntoResponse(s) == [status |-> OK, body |-> s]

\* A rejection built from its text alone, which loses the status.
StatusDropped(status, s) == [status |-> OK, body |-> s]

\* axum: a (StatusCode, body) pair converts into a response with that status.
StatusIntoResponse(status, s) == [status |-> status, body |-> s]

\* UploadResponseTemplate::new(bytes_written, msgs).into_response()
UploadResponseTemplate(bw, ms) ==
    [status |-> OK, body |-> "report", bytes_written |-> bw, msgs |-> ms]

Log(r, calls) == ops' = [ops EXCEPT ![r] = @ \o calls]

Respond(r, resp) ==
    /\ response' = [response EXCEPT ![r] = Some(resp)]
    /\ pc' = [pc EXCEPT ![r] = "done"]

InitState ==
    /\ pc = [r \in Reqs |-> "start"]
    /\ endpoint = [r \in Reqs |-> ""]
    /\ cap = [r \in Reqs |-> None]
    /\ name = [r \in Reqs |-> ""]
    /\ content_length = [r \in Reqs |-> None]
    /\ chunk = [r \in Reqs |-> 0]
    /\ received = [r \in Reqs |-> [bytes |-> 0, chunks |-> 0]]
    /\ msgs = [r \in Reqs |-> <<>>]
    /\ bytes_written = [r \in Reqs |-> None]
    /\ response = [r \in Reqs |-> None]
    /\ ops = [r \in Reqs |-> <<>>]
    /\ file = [r \in Reqs |-> NoFile]
    /\ remaining = Budget0
    /\ seen_remaining = [r \in Reqs |-> None]
    /\ outcome = [r \in Reqs |-> ""]

\* ------------------------------------------------------------ handle_upload
\* An absent content-length taken for a length no budget holds.
DeclaredOrTooLarge(cl) == IF cl = None THEN Budget0 + 1 ELSE Unwrap(cl)

\* content_length.unwrap_or(0)
Declared(cl) == IF cl = None THEN 0 ELSE Unwrap(cl)

\* A pre-check that also turns away a body that exactly fills the budget.
OverQuotaInclusive(cl, rem) == Declared(cl) >= rem

\* The quota pre-check's condition.
OverQuota(cl, rem) == Declared(cl) > rem

\* A report that states the declared length instead of asking the writer.
ReadDeclaredLength(r) == Declared(content_length[r])

\* A report that counts the bytes taken from the body, written or not.
ReadBytesReceived(r) == received[r].bytes

\* The count handle_upload puts in the report: read at loop exit.
ReadBytesWritten(r) == file[r].bytes_really_written

WriteErrorMsg(err) == <<"error while writing the file", err>>
ReceiveErrorMsg(err) == <<"error while receiving the file", err>>

\* The loop is left: the count is read and finalize() is awaited.
LoopExit(r, pushed, calls) ==
    /\ msgs' = [msgs EXCEPT ![r] = @ \o pushed]
    /\ bytes_written' = [bytes_written EXCEPT ![r] = Some(ReadBytesWritten(r))]
    /\ Log(r, calls \o <<"get_bytes_really_written">>)
    /\ pc' = [pc EXCEPT ![r] = "finalize"]

\* handle_upload without its expiry check.
HandleUploadStartNoExpiry(r, c, calls) ==
    IF ~validate(c).ok
    THEN /\ Respond(r, StatusIntoResponse(BAD_REQUEST, "link data invalid"))
         /\ Log(r, calls \o <<"validate">>)
    ELSE /\ pc' = [pc EXCEPT ![r] = "dirs_get"]
         /\ Log(r, calls \o <<"validate">>)
         /\ UNCHANGED response

\* handle_upload with the structural check ahead of the expiry check.
HandleUploadStartValidateFirst(r, c, calls) ==
    IF ~validate(c).ok
    THEN /\ Respond(r, StatusIntoResponse(BAD_REQUEST, "link data invalid"))
         /\ Log(r, calls \o <<"validate">>)
    ELSE IF is_expired(c)
    THEN /\ Respond(r, StatusIntoResponse(UNAUTHORIZED, "link expired"))
         /\ Log(r, calls \o <<"validate", "is_expired">>)
    ELSE /\ pc' = [pc EXCEPT ![r] = "dirs_get"]
         /\ Log(r, calls \o <<"validate", "is_expired">>)
         /\ UNCHANGED response

\* handle_upload up to its first await: the expiry check, the structural
\* check, then the directory lookup is started.
HandleUploadStart(r, c, calls) ==
    IF is_expired(c)
    THEN /\ Respond(r, StatusIntoResponse(UNAUTHORIZED, "link expired"))
         /\ Log(r, calls \o <<"is_expired">>)
    ELSE IF ~validate(c).ok
    THEN /\ Respond(r, StatusIntoResponse(BAD_REQUEST, "link data invalid"))
         /\ Log(r, calls \o <<"is_expired", "validate">>)
    ELSE /\ pc' = [pc EXCEPT ![r] = "dirs_get"]
         /\ Log(r, calls \o <<"is_expired", "validate">>)
         /\ UNCHANGED response

\* Entry points that pass the reason of a decode failure on to the client.
EnterTellsReason(r, ep, token, nm, cl, calls) ==
    /\ pc[r] = "start"
    /\ endpoint' = [endpoint EXCEPT ![r] = ep]
    /\ name' = [name EXCEPT ![r] = nm]
    /\ content_length' = [content_length EXCEPT ![r] = cl]
    /\ LET d == decrypt(token) IN
       IF d.ok
       THEN /\ cap' = [cap EXCEPT ![r] = Some(d.cap)]
            /\ HandleUploadStart(r, d.cap, calls \o <<"decrypt">>)
       ELSE /\ Respond(r, StrIntoResponse(d.err))
            /\ Log(r, calls \o <<"decrypt">>)
            /\ UNCHANGED cap
    /\ UNCHANGED <<workload, chunk, received, msgs, bytes_written, file,
                   remaining, seen_remaining, outcome>>

\* What both entry points do with their arguments: decrypt, then
\* handle_upload.
DecryptThenHandle(r, token, nm, cl, calls) ==
    /\ name' = [name EXCEPT ![r] = nm]
    /\ content_length' = [content_length EXCEPT ![r] = cl]
    /\ LET d == decrypt(token) IN
       IF d.ok
       THEN /\ cap' = [cap EXCEPT ![r] = Some(d.cap)]
            /\ HandleUploadStart(r, d.cap, calls \o <<"decrypt">>)
       ELSE /\ Respond(r, StrIntoResponse("decryption failure"))
            /\ Log(r, calls \o <<"decrypt">>)
            /\ UNCHANGED cap
    /\ UNCHANGED <<workload, chunk, received, msgs, bytes_written, file,
                   remaining, seen_remaining, outcome>>

\* A request enters through one of the two routes.
Enter(r, ep, token, nm, cl, calls) ==
    /\ pc[r] = "start"
    /\ endpoint' = [endpoint EXCEPT ![r] = ep]
    /\ DecryptThenHandle(r, token, nm, cl, calls)

\* What the client behind request r may send: under the single workload r1
\* sends anything and r2 nothing, under the concurrent one r1 calls
\* put_upload and r2 put_upload_public.
Clients(r) ==
    IF workload = "single"
    THEN IF r = "r1" THEN Inputs ELSE {}
    ELSE {i \in ConcInputs : (i.endpoint = "put_upload") <=> (r = "r1")}

put_upload(r) ==
    /\ pc[r] = "start"
    /\ \E i \in Clients(r) :
        /\ i.endpoint = "put_upload"
        /\ Enter(r, "put_upload", i.token, Unwrap(i.name), i.content_length, <<>>)

\* put_upload_public with the random name drawn whether or not it is used.
put_upload_public_eager(r) ==
    /\ pc[r] = "start"
    /\ \E i \in Clients(r), rnd \in RandNames :
        /\ i.endpoint = "put_upload_public"
        /\ Enter(r, "put_upload_public", i.token,
                 IF i.name = None THEN rnd ELSE Unwrap(i.name),
                 i.content_length, <<"OsRng">>)

put_upload_public(r) ==
    /\ pc[r] = "start"
    /\ \E i \in Clients(r), rnd \in RandNames :
        /\ i.endpoint = "put_upload_public"
        /\ IF i.name = None
           THEN Enter(r, "put_upload_public", i.token, rnd, i.content_length,
                      <<"OsRng">>)
           ELSE Enter(r, "put_upload_public", i.token, Unwrap(i.name),
                      i.content_length, <<>>)

\* A pre-check that reserves the declared length in the directory's budget.
DirsGetReserves(r) ==
    /\ pc[r] = "dirs_get"
    /\ \E found \in BOOLEAN :
        IF ~found
        THEN /\ Respond(r, StatusIntoResponse(INTERNAL_SERVER_ERROR, "lookup error"))
             /\ Log(r, <<"dirs.get">>)
             /\ UNCHANGED <<seen_remaining, remaining>>
        ELSE /\ seen_remaining' = [seen_remaining EXCEPT ![r] = Some(get_remaining_bytes)]
             /\ Log(r, <<"dirs.get", "get_remaining_bytes">>)
             /\ IF OverQuota(content_length[r], get_remaining_bytes)
                THEN /\ Respond(r, StatusIntoResponse(PAYLOAD_TOO_LARGE, "does not fit"))
                     /\ UNCHANGED remaining
                ELSE /\ pc' = [pc EXCEPT ![r] = "create_file_writer"]
                     /\ remaining' = remaining - Declared(content_length[r])
                     /\ UNCHANGED response
    /\ UNCHANGED <<workload, endpoint, cap, name, content_length, chunk,
                   received, msgs, bytes_written, file, outcome>>

\* A lookup that has the file made before the quota pre-check is passed.
DirsGetCreatesFirst(r) ==
    /\ pc[r] = "dirs_get"
    /\ \E found \in BOOLEAN :
        IF ~found
        THEN /\ Respond(r, StatusIntoResponse(INTERNAL_SERVER_ERROR, "lookup error"))
             /\ Log(r, <<"dirs.get">>)
             /\ UNCHANGED <<seen_remaining, file>>
        ELSE /\ seen_remaining' = [seen_remaining EXCEPT ![r] = Some(get_remaining_bytes)]
             /\ Log(r, <<"dirs.get", "get_remaining_bytes">>)
             /\ file' = [file EXCEPT ![r] = [NoFile EXCEPT !.created = TRUE]]
             /\ IF OverQuota(content_length[r], get_remaining_bytes)
                THEN Respond(r, StatusIntoResponse(PAYLOAD_TOO_LARGE, "does not fit"))
                ELSE /\ pc' = [pc EXCEPT ![r] = "create_file_writer"]
                     /\ UNCHANGED response
    /\ UNCHANGED <<workload, endpoint, cap, name, content_length, chunk,
                   received, msgs, bytes_written, remaining, outcome>>

\* ctx.dirs.get(..).await returns; the quota pre-check follows at once.
DirsGet(r) ==
    /\ pc[r] = "dirs_get"
    /\ \E found \in BOOLEAN :
        IF ~found
        THEN /\ Respond(r, StatusIntoResponse(INTERNAL_SERVER_ERROR, "lookup error"))
             /\ Log(r, <<"dirs.get">>)
             /\ UNCHANGED seen_remaining
        ELSE /\ seen_remaining' = [seen_remaining EXCEPT ![r] = Some(get_remaining_bytes)]
             /\ Log(r, <<"dirs.get", "get_remaining_bytes">>)
             /\ IF OverQuota(content_length[r], get_remaining_bytes)
                THEN Respond(r, StatusIntoResponse(PAYLOAD_TOO_LARGE, "does not fit"))
                ELSE /\ pc' = [pc EXCEPT ![r] = "create_file_writer"]
                     /\ UNCHANGED response
    /\ UNCHANGED <<workload, endpoint, cap, name, content_length, chunk,
                   received, msgs, bytes_written, file, remaining, outcome>>

\* directory.create_file_writer(..).await returns.
CreateFileWriter(r) ==
    /\ pc[r] = "create_file_writer"
    /\ Log(r, <<"create_file_writer">>)
    /\ \E made \in BOOLEAN :
        IF made
        THEN /\ file' = [file EXCEPT ![r] = [NoFile EXCEPT !.created = TRUE, !.open = TRUE]]
             /\ pc' = [pc EXCEPT ![r] = "body_next"]
             /\ UNCHANGED response
        ELSE /\ Respond(r, StatusIntoResponse(INTERNAL_SERVER_ERROR, "writer error"))
             /\ UNCHANGED file
    /\ UNCHANGED <<workload, endpoint, cap, name, content_length, chunk,
                   received, msgs, bytes_written, remaining, seen_remaining,
                   outcome>>

\* body.next().await returns a chunk: write_all is started.
BodyNextChunk(r) ==
    /\ pc[r] = "body_next"
    /\ \E n \in 1 .. (MaxBody - received[r].bytes) :
        /\ chunk' = [chunk EXCEPT ![r] = n]
        /\ received' = [received EXCEPT ![r] =
                          [bytes |-> @.bytes + n, chunks |-> @.chunks + 1]]
    /\ Log(r, <<"body.next">>)
    /\ pc' = [pc EXCEPT ![r] = "write_all"]
    /\ UNCHANGED <<workload, endpoint, cap, name, content_length, msgs,
                   bytes_written, response, file, remaining, seen_remaining,
                   outcome>>

\* body.next().await returns None: the body has ended.
BodyNextEnd(r) ==
    /\ pc[r] = "body_next"
    /\ LoopExit(r, <<>>, <<"body.next">>)
    /\ outcome' = [outcome EXCEPT ![r] = "end"]
    /\ UNCHANGED <<workload, endpoint, cap, name, content_length, chunk,
                   received, response, file, remaining, seen_remaining>>

\* A receive error that is recorded without leaving the loop.
BodyNextErrContinues(r) ==
    /\ pc[r] = "body_next"
    /\ msgs' = [msgs EXCEPT ![r] = @ \o <<ReceiveErrorMsg("transport")>>]
    /\ Log(r, <<"body.next">>)
    /\ outcome' = [outcome EXCEPT ![r] = "receive fault"]
    /\ Len(msgs[r]) < MaxBody
    /\ UNCHANGED <<workload, pc, endpoint, cap, name, content_length, chunk,
                   received, bytes_written, response, file, remaining,
                   seen_remaining>>

\* body.next().await returns an error.
BodyNextErr(r) ==
    /\ pc[r] = "body_next"
    /\ LoopExit(r, <<ReceiveErrorMsg("transport")>>, <<"body.next">>)
    /\ outcome' = [outcome EXCEPT ![r] = "receive fault"]
    /\ UNCHANGED <<workload, endpoint, cap, name, content_length, chunk,
                   received, response, file, remaining, seen_remaining>>

\* The bytes of the chunk in flight, as offsets into the request body.
ChunkBytes(r) ==
    [k \in 1 .. chunk[r] |-> received[r].bytes - chunk[r] + k]

\* The writer after it accepted the chunk in flight.
WriterAccepts(r) ==
    [file[r] EXCEPT !.bytes_really_written = @ + chunk[r],
                    !.data = @ \o ChunkBytes(r)]

\* The writer after finalize(): what it accepted is committed, it is closed.
WriterFinalized(r) ==
    [file[r] EXCEPT !.durable = file[r].bytes_really_written,
                    !.open = FALSE,
                    !.finalized = @ + 1,
                    !.flushed = Pending(r)]

\* file.write_all(&bytes).await returns Ok: the writer accepted the chunk.
WriteAllOk(r) ==
    /\ pc[r] = "write_all"
    /\ chunk[r] <= Available
    /\ file' = [file EXCEPT ![r] = WriterAccepts(r)]
    /\ chunk' = [chunk EXCEPT ![r] = 0]
    /\ Log(r, <<"write_all">>)
    /\ pc' = [pc EXCEPT ![r] = "body_next"]
    /\ UNCHANGED <<workload, endpoint, cap, name, content_length, received,
                   msgs, bytes_written, response, remaining, seen_remaining,
                   outcome>>

\* A write error propagated with `?`: the request fails and the writer is
\* dropped without finalize().
WriteAllErrPropagates(r) ==
    /\ pc[r] = "write_all"
    /\ \E err \in (IF chunk[r] > Available THEN {"quota"} ELSE {"io"}) :
        /\ Respond(r, StatusIntoResponse(INTERNAL_SERVER_ERROR, err))
        /\ outcome' = [outcome EXCEPT ![r] = "write fault: " \o err]
    /\ Log(r, <<"write_all">>)
    /\ file' = [file EXCEPT ![r].faulted = TRUE]
    /\ chunk' = [chunk EXCEPT ![r] = 0]
    /\ UNCHANGED <<workload, endpoint, cap, name, content_length, received,
                   msgs, bytes_written, remaining, seen_remaining>>

\* A write error that is recorded without leaving the loop: the chunk is
\* dropped and the next one is requested.
WriteAllErrContinues(r) ==
    /\ pc[r] = "write_all"
    /\ \E err \in (IF chunk[r] > Available THEN {"quota"} ELSE {"io"}) :
        /\ msgs' = [msgs EXCEPT ![r] = @ \o <<WriteErrorMsg(err)>>]
        /\ outcome' = [outcome EXCEPT ![r] = "write fault: " \o err]
    /\ Log(r, <<"write_all">>)
    /\ pc' = [pc EXCEPT ![r] = "body_next"]
    /\ file' = [file EXCEPT ![r].faulted = TRUE]
    /\ chunk' = [chunk EXCEPT ![r] = 0]
    /\ UNCHANGED <<workload, endpoint, cap, name, content_length, received,
                   bytes_written, response, remaining, seen_remaining>>

\* A write error answered by writing the same chunk again.
WriteAllErrRetries(r) ==
    /\ pc[r] = "write_all"
    /\ \E err \in (IF chunk[r] > Available THEN {"quota"} ELSE {"io"}) :
        outcome' = [outcome EXCEPT ![r] = "write fault: " \o err]
    /\ file' = [file EXCEPT ![r].faulted = TRUE]
    /\ UNCHANGED <<workload, pc, endpoint, cap, name, content_length, chunk,
                   received, msgs, bytes_written, response, ops, remaining,
                   seen_remaining>>

\* file.write_all(&bytes).await returns Err: the chunk is beyond the budget,
\* or the storage failed.  Nothing of the chunk is kept.
WriteAllErr(r) ==
    /\ pc[r] = "write_all"
    /\ \E err \in (IF chunk[r] > Available THEN {"quota"} ELSE {"io"}) :
        /\ LoopExit(r, <<WriteErrorMsg(err)>>, <<"write_all">>)
        /\ outcome' = [outcome EXCEPT ![r] = "write fault: " \o err]
    /\ file' = [file EXCEPT ![r].faulted = TRUE]
    /\ chunk' = [chunk EXCEPT ![r] = 0]
    /\ UNCHANGED <<workload, endpoint, cap, name, content_length, received,
                   response, remaining, seen_remaining>>

\* The storage layer commits the bytes a writer accepted and charges them
\* to the directory's budget.
Commit(r) ==
    /\ file[r].open
    /\ Pending(r) > 0
    /\ file' = [file EXCEPT ![r].durable = file[r].bytes_really_written]
    /\ remaining' = remaining - Pending(r)
    /\ UNCHANGED <<workload, pc, endpoint, cap, name, content_length, chunk,
                   received, msgs, bytes_written, response, ops, seen_remaining,
                   outcome>>

\* The messages finalize() can return: none on a transfer the writer saw no
\* fault in, diagnostics otherwise.  A message is a text and its detail.
FinalizeMsgs(f) ==
    IF f.faulted
    THEN {<<>>, <<<<"truncated", "">>>>,
          <<<<"truncated", "">>, <<"flush warning", "">>>>}
    ELSE {<<>>}

\* A report that puts finalize's messages ahead of the loop's.
FinalizePrepends(r) ==
    /\ pc[r] = "finalize"
    /\ file' = [file EXCEPT ![r] = WriterFinalized(r)]
    /\ remaining' = remaining - Pending(r)
    /\ \E m \in FinalizeMsgs(file[r]) :
        /\ msgs' = [msgs EXCEPT ![r] = m \o @]
        /\ Respond(r, UploadResponseTemplate(Unwrap(bytes_written[r]), m \o msgs[r]))
    /\ Log(r, <<"finalize">>)
    /\ UNCHANGED <<workload, endpoint, cap, name, content_length, chunk,
                   received, bytes_written, seen_remaining, outcome>>

\* file.finalize().await returns; the report is assembled and returned.
Finalize(r) ==
    /\ pc[r] = "finalize"
    /\ file' = [file EXCEPT ![r] = WriterFinalized(r)]
    /\ remaining' = remaining - Pending(r)
    /\ \E m \in FinalizeMsgs(file[r]) :
        /\ msgs' = [msgs EXCEPT ![r] = @ \o m]
        /\ Respond(r, UploadResponseTemplate(Unwrap(bytes_written[r]), msgs[r] \o m))
    /\ Log(r, <<"finalize">>)
    /\ UNCHANGED <<workload, endpoint, cap, name, content_length, chunk,
                   received, bytes_written, seen_remaining, outcome>>

\* One request at a time.
Init ==
    /\ InitState
    /\ workload = "single"

\* Two requests in flight, one to each endpoint.
InitConc ==
    /\ InitState
    /\ workload = "concurrent"

Next ==
    \E r \in Reqs :
        \/ put_upload(r)
        \/ put_upload_public(r)
        \/ DirsGet(r)
        \/ CreateFileWriter(r)
        \/ BodyNextChunk(r)
        \/ BodyNextEnd(r)
        \/ BodyNextErr(r)
        \/ WriteAllOk(r)
        \/ WriteAllErr(r)
        \/ Commit(r)
        \/ Finalize(r)

Spec == Init /\ [][Next]_vars

SpecConc == InitConc /\ [][Next]_vars

\* A suspended handler is resumed: the runtime polls a future whose await
\* is ready, and every await of handle_upload becomes ready (the body is
\* finite: it ends or fails after MaxBody bytes at most).
Resume(r) ==
    \/ DirsGet(r)
    \/ CreateFileWriter(r)
    \/ BodyNextChunk(r)
    \/ BodyNextEnd(r)
    \/ BodyNextErr(r)
    \/ WriteAllOk(r)
    \/ WriteAllErr(r)
    \/ Finalize(r)

\* One request at a time, every suspended handler eventually resumed.
SpecFair == Init /\ [][Next]_vars /\ \A r \in Reqs : WF_vars(Resume(r))

\* -------------------------------------------------------------- properties
Done(r) == pc[r] = "done"
Resp(r) == Unwrap(response[r])
Completed(r) == Done(r) /\ Resp(r).body = "report"
Called(r, op) == \E k \in 1 .. Len(ops[r]) : ops[r][k] = op
Calls(r, op) == Cardinality({k \in 1 .. Len(ops[r]) : ops[r][k] = op})
LastCall(r) == ops[r][Len(ops[r])]
Expired(r) == cap[r] # None /\ is_expired(Unwrap(cap[r]))
PreChecked(r) == seen_remaining[r] # None
WriteFaults == {"write fault: io", "write fault: quota"}

\* C1: a request whose decoded capability is expired ends in the
\* unauthorized rejection, and on its run there is no directory lookup, no
\* remaining-bytes query, no writer creation, no chunk write and no finalize.
C1_ExpiredRejectedBeforeLookup ==
    \A r \in Reqs :
        Expired(r) =>
            /\ Done(r)
            /\ Resp(r).status = UNAUTHORIZED
            /\ \A op \in {"dirs.get", "get_remaining_bytes", "create_file_writer",
                           "write_all", "finalize"} : ~Called(r, op)
            /\ file[r] = NoFile
            /\ seen_remaining[r] = None

C1_Witness == \E r \in Reqs : Expired(r) /\ Done(r)

\* C2: a request that reaches the quota pre-check declaring more than the
\* budget read there is rejected as payload-too-large, with no writer created
\* and no byte written; one declaring exactly the budget goes on to writer
\* acquisition.
C2_OverQuotaRejectedBeforeWriter ==
    \A r \in Reqs :
        PreChecked(r) =>
            /\ Declared(content_length[r]) > Unwrap(seen_remaining[r]) =>
                  /\ Done(r)
                  /\ Resp(r).status = PAYLOAD_TOO_LARGE
                  /\ ~Called(r, "create_file_writer")
                  /\ file[r] = NoFile
            /\ Declared(content_length[r]) = Unwrap(seen_remaining[r]) =>
                  /\ pc[r] = "create_file_writer" \/ Called(r, "create_file_writer")
                  /\ Done(r) => Resp(r).status # PAYLOAD_TOO_LARGE

C2_Witness ==
    \E r \in Reqs :
        /\ PreChecked(r)
        /\ Declared(content_length[r]) > Unwrap(seen_remaining[r])
        /\ Done(r)

\* C3: a transfer that passed the checks and in which no receive and no write
\* failed ends as a completion reporting the total body length and no message.
C3_CleanTransferReportsTotal ==
    \A r \in Reqs :
        (Done(r) /\ outcome[r] = "end") =>
            /\ Resp(r).status = OK
            /\ Resp(r).body = "report"
            /\ Resp(r).bytes_written = received[r].bytes
            /\ Resp(r).msgs = <<>>

C3_Witness ==
    \E r \in Reqs : Done(r) /\ outcome[r] = "end" /\ received[r].bytes > 1

\* C4: a write fault after N bytes were written gives a completion (success
\* status) reporting N bytes, with a non-empty message list that holds the
\* write-fault message; the N bytes stay stored.
C4_WriteFaultReportsPartial ==
    \A r \in Reqs :
        (Done(r) /\ outcome[r] \in WriteFaults) =>
            /\ Resp(r).status = OK
            /\ Resp(r).body = "report"
            /\ Resp(r).bytes_written = Len(file[r].data)
            /\ Resp(r).msgs # <<>>
            /\ \E k \in 1 .. Len(Resp(r).msgs) :
                  Resp(r).msgs[k] \in {WriteErrorMsg("io"), WriteErrorMsg("quota")}
            /\ file[r].durable = Len(file[r].data)
            /\ file[r].data = [k \in 1 .. Len(file[r].data) |-> k]

C4_Witness ==
    \E r \in Reqs :
        /\ Done(r)
        /\ outcome[r] \in WriteFaults
        /\ Len(file[r].data) > 0
        /\ Len(file[r].data) < received[r].bytes

\* C5: a receive fault after N bytes were received and written gives a
\* completion reporting N bytes and exactly one message, the receive error.
C5_ReceiveFaultReportsPartial ==
    \A r \in Reqs :
        (Done(r) /\ outcome[r] = "receive fault") =>
            /\ Resp(r).status = OK
            /\ Resp(r).body = "report"
            /\ Resp(r).bytes_written = received[r].bytes
            /\ Resp(r).bytes_written = Len(file[r].data)
            /\ Resp(r).msgs = <<ReceiveErrorMsg("transport")>>

C5_Witness ==
    \E r \in Reqs :
        Done(r) /\ outcome[r] = "receive fault" /\ Len(file[r].data) > 0

C7_FinalizeExactlyOnce ==
    \A r \in Reqs :
        /\ Calls(r, "finalize") = file[r].finalized
        /\ file[r].finalized <= 1
        /\ ~file[r].created => file[r].finalized = 0
        /\ Done(r) => (file[r].created <=> file[r].finalized = 1)
        /\ file[r].finalized = 1 => (Done(r) /\ LastCall(r) = "finalize")

C7_Witness ==
    \E r \in Reqs :
        Done(r) /\ outcome[r] \in WriteFaults /\ file[r].finalized = 1

\* C8: the status tells the stage the request stopped at: unauthorized for
\* an expired capability, bad-request for an invalid one, payload-too-large
\* for a declared length over the budget, internal-error for a failed lookup
\* or writer acquisition, success once the stream loop was reached.
C8_StatusByStage ==
    \A r \in Reqs :
        (Done(r) /\ cap[r] # None) =>
            /\ Expired(r) => Resp(r).status = UNAUTHORIZED
            /\ (~Expired(r) /\ ~validate(Unwrap(cap[r])).ok) =>
                  Resp(r).status = BAD_REQUEST
            /\ LastCall(r) = "dirs.get" => Resp(r).status = INTERNAL_SERVER_ERROR
            /\ (PreChecked(r)
                  /\ Declared(content_length[r]) > Unwrap(seen_remaining[r])) =>
                  Resp(r).status = PAYLOAD_TOO_LARGE
            /\ LastCall(r) = "create_file_writer" =>
                  Resp(r).status = INTERNAL_SERVER_ERROR
            /\ file[r].created => Resp(r).status = OK
            /\ outcome[r] # "" => file[r].created

C8_Witness ==
    \E r \in Reqs : Done(r) /\ LastCall(r) = "create_file_writer"

\* C9: a capability decode failure in put_upload or put_upload_public does
\* not carry the success status that completed transfers carry.
C9_DecodeFailureNotSuccess ==
    \A r \in Reqs :
        (Done(r) /\ cap[r] = None) => Resp(r).status # OK

\* C10: whatever the interleaving of the uploads into the directory, and
\* whatever they declared, the bytes stored never exceed the budget and the
\* budget is charged exactly the bytes stored; an upload whose write is
\* turned away for the budget ends as a completion with the write-fault
\* message and the bytes written before it.
C10_QuotaHeldUnderConcurrency ==
    /\ remaining >= 0
    /\ SumDurable(Reqs) + SumPending(Reqs) <= Budget0
    /\ Budget0 - remaining = SumDurable(Reqs)
    /\ \A r \in Reqs :
        (Done(r) /\ outcome[r] = "write fault: quota") =>
            /\ Resp(r).status = OK
            /\ Resp(r).body = "report"
            /\ Resp(r).msgs[1] = WriteErrorMsg("quota")
            /\ Resp(r).bytes_written = Len(file[r].data)
            /\ file[r].durable = Len(file[r].data)

C10_Witness ==
    \E r, q \in Reqs :
        /\ r # q
        /\ Done(r) /\ outcome[r] = "write fault: quota"
        /\ Len(file[r].data) > 0
        /\ file[q].durable > 0
        /\ Declared(content_length[r]) < received[r].bytes

\* C11: a capability that is expired and structurally invalid is rejected as
\* expired (unauthorized, "link expired"), never as invalid; validate() is
\* not called for it.
C11_ExpiredBeforeInvalid ==
    \A r \in Reqs :
        (Expired(r) /\ ~validate(Unwrap(cap[r])).ok) =>
            /\ Done(r)
            /\ Resp(r) = [status |-> UNAUTHORIZED, body |-> "link expired"]
            /\ Called(r, "is_expired")
            /\ ~Called(r, "validate")

C11_Witness ==
    \E r \in Reqs : Expired(r) /\ ~validate(Unwrap(cap[r])).ok /\ Done(r)

LoopMsgs == {WriteErrorMsg("io"), WriteErrorMsg("quota"), ReceiveErrorMsg("transport")}
LoopMsgCount(r) == Cardinality({k \in 1 .. Len(msgs[r]) : msgs[r][k] \in LoopMsgs})
Faulted(r) == outcome[r] \in WriteFaults \cup {"receive fault"}

\* C12: once a receive or write fault has happened in the stream loop, no
\* further chunk is requested from the body and none is written; the loop
\* records at most one message per request.
C12_FaultEndsLoop ==
    /\ [](\A r \in Reqs : LoopMsgCount(r) <= 1)
    /\ [][\A r \in Reqs :
            Faulted(r) =>
                /\ Calls(r, "body.next")' = Calls(r, "body.next")
                /\ Calls(r, "write_all")' = Calls(r, "write_all")
                /\ received'[r] = received[r]
                /\ file'[r].data = file[r].data
                /\ LoopMsgCount(r)' = LoopMsgCount(r)]_vars

C12_Witness ==
    \E r \in Reqs :
        Done(r) /\ outcome[r] = "receive fault" /\ Calls(r, "write_all") > 0

\* The first n bytes of a request body.
BodyPrefix(n) == [k \in 1 .. n |-> k]

\* C13: within one upload at most one chunk is outstanding: the next chunk
\* is requested only after the write of the previous one returned, chunks
\* are written in the order received, and what was handed to the writer is
\* always a prefix of the request body.
C13_SequentialPrefix ==
    \A r \in Reqs :
        /\ file[r].data = BodyPrefix(Len(file[r].data))
        /\ Len(file[r].data) <= received[r].bytes
        /\ Calls(r, "body.next") - Calls(r, "write_all") \in {0, 1}
        /\ pc[r] = "write_all" =>
              /\ chunk[r] > 0
              /\ Calls(r, "body.next") = Calls(r, "write_all") + 1
              /\ file[r].data \o ChunkBytes(r) = BodyPrefix(received[r].bytes)
        /\ pc[r] = "body_next" =>
              /\ chunk[r] = 0
              /\ Calls(r, "body.next") = Calls(r, "write_all")
              /\ Len(file[r].data) = received[r].bytes

C13_Witness ==
    \E r \in Reqs :
        pc[r] = "write_all" /\ Len(file[r].data) > 0 /\ received[r].chunks > 1

\* C14: the pre-check reads the budget once per request and reserves
\* nothing: as long as no byte is committed every pre-check sees the whole
\* budget, so two uploads that each fit it and together exceed it both pass
\* and both hold a writer before either has written a byte.
C14_PreCheckReservesNothing ==
    \A r \in Reqs :
        /\ Calls(r, "get_remaining_bytes") <= 1
        /\ (PreChecked(r) /\ SumDurable(Reqs) = 0) =>
              Unwrap(seen_remaining[r]) = Budget0
        /\ file[r].created =>
              (PreChecked(r)
                 /\ Declared(content_length[r]) <= Unwrap(seen_remaining[r]))

C14_Witness ==
    \E r, q \in Reqs :
        /\ r # q
        /\ pc[r] = "body_next" /\ pc[q] = "body_next"
        /\ file[r].open /\ file[q].open
        /\ received[r].bytes = 0 /\ received[q].bytes = 0
        /\ Declared(content_length[r]) <= Budget0
        /\ Declared(content_length[q]) <= Budget0
        /\ Declared(content_length[r]) + Declared(content_length[q]) > Budget0

\* C15: in the report a loop-time fault message, when there is one, comes
\* first, and the messages finalize returned follow it in the order finalize
\* returned them; no finalize message precedes the loop-time message.
C15_LoopMessageFirst ==
    \A r \in Reqs :
        Completed(r) =>
            LET ms == Resp(r).msgs
                n == IF Faulted(r) THEN 1 ELSE 0
            IN /\ Len(ms) >= n
               /\ n = 1 => ms[1] \in LoopMsgs
               /\ \A k \in 1 .. Len(ms) : ms[k] \in LoopMsgs => k = 1
               /\ SubSeq(ms, n + 1, Len(ms)) \in FinalizeMsgs(file[r])
               /\ ms = msgs[r]

C15_Witness ==
    \E r \in Reqs :
        /\ Completed(r)
        /\ Len(Resp(r).msgs) > 2
        /\ Resp(r).msgs[1] \in LoopMsgs

\* C16: a request without content-length counts as declaring 0 at the quota
\* pre-check: whatever the budget read there (0 included) and whatever its
\* body, it is not rejected as payload-too-large and goes on to writer
\* acquisition.
C16_AbsentLengthPassesPreCheck ==
    \A r \in Reqs :
        (content_length[r] = None /\ PreChecked(r)) =>
            /\ pc[r] = "create_file_writer" \/ Called(r, "create_file_writer")
            /\ Done(r) => Resp(r).status # PAYLOAD_TOO_LARGE

C16_Witness ==
    \E r \in Reqs :
        /\ content_length[r] = None
        /\ seen_remaining[r] = Some(0)
        /\ file[r].created
        /\ received[r].bytes > 0

\* The texts of the rejections at decode, expiry, structural validation and
\* the quota pre-check.
EarlyRejections ==
    {"decryption failure", "link expired", "link data invalid", "does not fit"}

RejectedEarly(r) == Done(r) /\ Resp(r).body \in EarlyRejections

\* C17: a request rejected at decode, expiry, structural validation or the
\* quota pre-check leaves the directory as it was: the step that rejects it
\* changes neither the remaining budget nor any file, a lone request that
\* was rejected so finds the budget and the files as at its start, and a
\* decoded capability is never changed by a later step.
C17_RejectionLeavesDirectory ==
    /\ [](\A r \in Reqs :
            RejectedEarly(r) =>
                /\ remaining = Budget0
                /\ \A q \in Reqs : file[q] = NoFile)
    /\ [][\A r \in Reqs :
            /\ (~Done(r) /\ RejectedEarly(r)') =>
                   (remaining' = remaining /\ file' = file)
            /\ cap[r] # None => cap'[r] = cap[r]]_vars

C17_Witness ==
    \E r \in Reqs :
        /\ RejectedEarly(r)
        /\ cap[r] # None
        /\ Resp(r).status = PAYLOAD_TOO_LARGE
        /\ seen_remaining[r] = Some(remaining)

\* A request whose token did not decode: it has answered without a
\* capability.
DecodeFailed(r) == Done(r) /\ cap[r] = None

\* The one answer to a token that does not decode.
DecodeFailureResponse == StrIntoResponse("decryption failure")

\* C18: the answer to a decode failure is one fixed response, the same
\* status and the same body for a wrong key as for a malformed token and for
\* put_upload as for put_upload_public, so it tells nothing of the reason.
C18_DecodeFailureUniform ==
    \A r \in Reqs : DecodeFailed(r) => Resp(r) = DecodeFailureResponse

C18_Witness ==
    \E r \in Reqs :
        /\ DecodeFailed(r)
        /\ endpoint[r] = "put_upload_public"
        /\ LastCall(r) = "decrypt"

\* C19: put_upload_public with a name supplied enters exactly as put_upload
\* does with the same token, name and content-length: its entry step makes
\* the same calls and leaves the same state and response, the route aside,
\* and nothing after entry looks at the route.  The random source is asked
\* only when the name is omitted.
C19_PublicWithNameAsPutUpload ==
    /\ [](\A r \in Reqs :
            Called(r, "OsRng") <=>
                (endpoint[r] = "put_upload_public" /\ name[r] \in RandNames))
    /\ [][\A r \in Reqs :
            (pc[r] = "start" /\ endpoint'[r] = "put_upload_public"
                /\ name'[r] \in Names) =>
                \E i \in Inputs :
                    /\ i.endpoint = "put_upload"
                    /\ DecryptThenHandle(r, i.token, Unwrap(i.name),
                                         i.content_length, <<>>)]_vars

C19_Witness ==
    \E r \in Reqs :
        /\ endpoint[r] = "put_upload_public"
        /\ name[r] \in Names
        /\ Completed(r)
        /\ ~Called(r, "OsRng")

\* The stages of a request, by where its future is suspended.
Stage(p) ==
    CASE p = "start" -> 0
      [] p = "dirs_get" -> 4
      [] p = "create_file_writer" -> 6
      [] p \in {"body_next", "write_all"} -> 7
      [] p = "finalize" -> 8
      [] p = "done" -> 9

\* The stage each collaborator call belongs to: decode, expiry, validation,
\* directory lookup, quota pre-check, writer acquisition, stream, finalize.
OpStage(op) ==
    CASE op = "OsRng" -> 0
      [] op = "decrypt" -> 1
      [] op = "is_expired" -> 2
      [] op = "validate" -> 3
      [] op = "dirs.get" -> 4
      [] op = "get_remaining_bytes" -> 5
      [] op = "create_file_writer" -> 6
      [] op \in {"body.next", "write_all", "get_bytes_really_written"} -> 7
      [] op = "finalize" -> 8

\* The calls of a request go through the stages in order; only the stream
\* stage is stayed in.
OpsInOrder(r) ==
    \A k \in 1 .. Len(ops[r]) - 1 :
        \/ OpStage(ops[r][k]) < OpStage(ops[r][k + 1])
        \/ OpStage(ops[r][k]) = 7 /\ OpStage(ops[r][k + 1]) = 7

\* C20: a request has answered exactly when it is done, and once done its
\* response, its call log and its position never change; it passes the
\* stages decode, expiry, validation, directory lookup, quota pre-check,
\* writer acquisition, stream, finalize, respond in that order and never
\* goes back; and, its body ending or failing, a request that acquired a
\* writer eventually has finalized it once and responded.
C20_OneTerminalStateInOrder ==
    /\ [](\A r \in Reqs : (Done(r) <=> response[r] # None) /\ OpsInOrder(r))
    /\ [][\A r \in Reqs :
            /\ Stage(pc'[r]) >= Stage(pc[r])
            /\ Done(r) => (response'[r] = response[r] /\ ops'[r] = ops[r])]_vars
    /\ \A r \in Reqs :
            file[r].created ~> (Done(r) /\ file[r].finalized = 1)

C20_Witness ==
    \E r \in Reqs :
        /\ Completed(r)
        /\ file[r].finalized = 1
        /\ Calls(r, "body.next") > Calls(r, "write_all")
        /\ Calls(r, "write_all") > 1
        /\ LastCall(r) = "finalize"

====
